---- MODULE Spec2Model ----
(***************************************************************************)
(* Model of python/optimize.py: AverageLosses, DataBatchToVariables and    *)
(* the TrainModels training loop (epochs, training phase with per-batch    *)
(* participation sampling, validation phase, best/last checkpoints and     *)
(* the two logging hooks).                                                 *)
(*                                                                         *)
(* Python lists are sequences; the element at Python index i is s[i + 1].  *)
(* Floats are exact rationals [n, d] in lowest terms; float('inf') is 1/0. *)
(* A forward pass yields any loss in LossValues (finite, non-negative).    *)
(* The wall-clock duration of a training phase is one positive time unit.  *)
(***************************************************************************)
EXTENDS Integers, Sequences, FiniteSets, TLC

\* ------------------------------------------------------------------ bounds
MaxSize == 5
MaxLoss == 1
ProbDen == 2
MaxLen == 2
MaxValue == 3
MaxArity == 2

\* ------------------------------------------------------- float arithmetic
RECURSIVE GCD(_, _)
GCD(a, b) == IF b = 0 THEN a ELSE GCD(b, a % b)

Inf == [n |-> 1, d |-> 0]

Float(x) == [n |-> x, d |-> 1]

\* x / y for a float x >= 0 held as an integer and an int y > 0.
TrueDiv(x, y) == LET g == GCD(x, y) IN [n |-> x \div g, d |-> y \div g]

\* a < b on floats; inf < inf is false, finite < inf is true.
Less(a, b) == a.n * b.d < b.n * a.d

IsFinite(a) == a.d # 0

RECURSIVE Sum(_)
Sum(s) == IF s = <<>> THEN 0 ELSE Head(s) + Sum(Tail(s))

Min2(a, b) == IF a < b THEN a ELSE b

\* ----------------------------------------------------------- AverageLosses
\* Mutant: a zero count averages to 0.0 instead of +infinity.
AverageOneZero(x, y) == IF y > 0 THEN TrueDiv(x, y) ELSE Float(0)

\* x / y if y > 0 else float('inf')
AverageOne(x, y) == IF y > 0 THEN TrueDiv(x, y) ELSE Inf

\* zip() stops at the shorter of the two lists.
AverageLosses(total_losses, total_examples) ==
  [k \in 1..Min2(Len(total_losses), Len(total_examples)) |->
     AverageOne(total_losses[k], total_examples[k])]

\* ---------------------------------------------------- DataBatchToVariables
\* A tensor is [id, dim, dev]: its identity, leading dimension and residency.
Cuda(x) == [x EXCEPT !.dev = "cuda"]

\* batch[a:b] with 0 <= a, 0 <= b (Python slice, 0-based, clipped to the list).
Slice(batch, a, b) ==
  LET hi == Min2(b, Len(batch))
  IN  IF a >= hi THEN <<>> ELSE [k \in 1..(hi - a) |-> batch[a + k]]

\* Mutant: the length check lets longer batches through.
BatchLenAtLeast(batch, num_inputs, num_labels) ==
  Len(batch) >= num_inputs + num_labels + 1

\* line 65
BatchLenOk(batch, num_inputs, num_labels) ==
  Len(batch) = num_inputs + num_labels + 1

DataBatchToVariables(batch, num_inputs, num_labels) ==
  IF ~BatchLenOk(batch, num_inputs, num_labels)
  THEN [raised |-> "AssertionError"]
  ELSE [raised |-> "none",
        input_vars |-> [k \in 1..Len(Slice(batch, 0, num_inputs)) |->
                          Cuda(Slice(batch, 0, num_inputs)[k])],
        label_vars |-> [k \in 1..Len(Slice(batch, num_inputs, num_inputs + num_labels)) |->
                          Cuda(Slice(batch, num_inputs, num_inputs + num_labels)[k])],
        weights_var |-> Cuda(batch[Len(batch)])]

\* ------------------------------------------------------------------ state
VARIABLES
  pc,                      \* position in TrainModels
  fault,                   \* exception that ended the run, or "none"
  nets,                    \* len(nets)
  train_loader,            \* batches one pass of the training source yields
  val_loader,              \* batches one pass of the validation source yields
  train_settings,          \* per net: [epochs]
  batch_use_prob,          \* numerator over ProbDen
  print_log,
  log_dir,
  train_log,
  min_validation_losses,
  min_validation_loss,
  range_next,              \* next value of range(train_settings[0].epochs)
  epoch,
  running_losses,
  train_examples_per_net,
  batch_pos,               \* batches the current loader iterator has yielded
  net_idx,
  input_vars,
  loss_value,
  epoch_duration,
  examples_per_sec,
  avg_losses,
  avg_loss,
  validation_total_losses,
  validation_examples,
  validation_avg_losses,
  validation_avg_loss,
  validated,               \* history: per completed validation phase, what it saw
  val_improved_marker,
  net_id,
  mode,                    \* per net: "train" or "eval"
  device,                  \* per net: "cuda" or "cpu"
  params,                  \* per net: version of the parameters (optimizer steps applied)
  grads,                   \* per net: backward passes accumulated in the gradients
  files,                   \* checkpoint path -> <<>> (absent) or <<state_dict>>
  writes,                  \* checkpoint path -> number of torch.save calls
  last_forward,            \* what the latest net(input_vars) call ran under
  last_save,               \* what the latest torch.save call ran under
  console,                 \* lines printed
  sink_configured,         \* tensorboard_logger.configure was called
  sink,                    \* tensorboard_logger.log_value calls
  returned,                \* <<>> or <<train_log>> once returned
  call                     \* a direct call of a pure function: arguments and result

inputs == <<nets, train_loader, val_loader, train_settings, batch_use_prob,
            print_log, log_dir>>

train_acc == <<running_losses, train_examples_per_net>>

train_stats == <<epoch_duration, examples_per_sec, avg_losses, avg_loss>>

val_acc == <<validation_total_losses, validation_examples>>

val_stats == <<validation_avg_losses, validation_avg_loss, validated>>

minima == <<min_validation_losses, min_validation_loss, val_improved_marker>>

netstate == <<mode, device, params, grads>>

disk == <<files, writes, last_save>>

hooks == <<console, sink_configured, sink>>

vars == <<pc, fault, inputs, train_log, minima, range_next, epoch, train_acc,
          batch_pos, net_idx, input_vars, loss_value, train_stats, val_acc,
          val_stats, net_id, netstate, disk, last_forward, hooks, returned, call>>

\* ----------------------------------------------------------------- inputs
\* nets[0].input_names() and nets[0].label_names() of the harness networks.
input_names == <<"frame">>

label_names == <<"steering">>

num_inputs == Len(input_names)

num_labels == Len(label_names)

NetIdx == 0..(nets - 1)

NoCall == [op |-> "none"]

NoFault == [error |-> "none", line |-> 0]

Unset == [n |-> 0, d |-> 0]

\* A raw batch of `len` host tensors, each with leading dimension `size`.
MkBatch(size, len) == [k \in 1..len |-> [id |-> k, dim |-> size, dev |-> "host"]]

RECURSIVE SizeSeqs(_)
\* Sequences of positive batch sizes with `total` examples in all.
SizeSeqs(total) ==
  IF total = 0 THEN {<<>>}
  ELSE UNION {{<<first>> \o rest : rest \in SizeSeqs(total - first)} : first \in 1..total}

\* Loaders: well-formed batches, at most one of which lacks the weights tensor.
Loaders(total) ==
  UNION {{[k \in 1..Len(sizes) |->
             MkBatch(sizes[k], IF k = bad THEN num_inputs + num_labels
                               ELSE num_inputs + num_labels + 1)]
           : bad \in 0..Len(sizes)}
         : sizes \in SizeSeqs(total)}

\* Only train_settings[0].epochs is read; the other nets carry another count.
Settings(n, e) ==
  {[k \in 1..n |-> [epochs |-> IF k = 1 THEN e ELSE other]] : other \in {0, e + 1}}

\* Size of a run's input: nets, epochs and examples of the two sources.
Size(n, e, t, v) == n + e + t + v

\* The keyword defaults of TrainModels (line 79-80) and what RunTraining passes
\* (hyperparams_search.py lines 53-54).
HookSettings == {<<TRUE, "">>, <<FALSE, "logs">>}

Zeros(n) == [k \in 1..n |-> 0]

FileNames == (0..(MaxSize - 1)) \X {"best", "last"}

InitLocals ==
  /\ pc = "entry"
  /\ fault = NoFault
  /\ train_log = <<>>
  /\ min_validation_losses = <<>>
  /\ min_validation_loss = Unset
  /\ val_improved_marker = ""
  /\ range_next = 0
  /\ epoch = 0
  /\ running_losses = <<>>
  /\ train_examples_per_net = <<>>
  /\ batch_pos = 0
  /\ net_idx = 0
  /\ input_vars = <<>>
  /\ loss_value = 0
  /\ epoch_duration = 0
  /\ examples_per_sec = Unset
  /\ avg_losses = <<>>
  /\ avg_loss = Unset
  /\ validation_total_losses = <<>>
  /\ validation_examples = <<>>
  /\ validation_avg_losses = <<>>
  /\ validation_avg_loss = Unset
  /\ validated = <<>>
  /\ net_id = 0
  /\ files = [f \in FileNames |-> <<>>]
  /\ writes = [f \in FileNames |-> 0]
  /\ last_forward = [phase |-> "none", net |-> 0, mode |-> "train", dev |-> "cuda"]
  /\ last_save = [kind |-> "none", net |-> 0, dev |-> "cuda"]
  /\ console = <<>>
  /\ sink_configured = FALSE
  /\ sink = <<>>
  /\ returned = <<>>

Init ==
  /\ InitLocals
  /\ \E n \in 1..MaxSize, e \in 0..MaxSize, t \in 0..MaxSize, v \in 0..MaxSize :
       /\ Size(n, e, t, v) <= MaxSize
       /\ nets = n
       /\ train_settings \in Settings(n, e)
       /\ train_loader \in Loaders(t)
       /\ val_loader \in Loaders(v)
  /\ batch_use_prob \in 0..ProbDen
  /\ \E h \in HookSettings :
       /\ print_log = h[1]
       /\ log_dir = h[2]
  /\ mode = [k \in 1..nets |-> "train"]
  /\ device = [k \in 1..nets |-> "cuda"]
  /\ params = Zeros(nets)
  /\ grads = Zeros(nets)
  /\ call = NoCall

\* ------------------------------------------------------------ TrainModels
LossValues == 0..MaxLoss

\* Mutant: the sample can be the end point 1.0.
SamplesClosed == 0..ProbDen

\* random.uniform(0.0, 1.0) is 0.0 + 1.0 * random.random(), a value in [0, 1).
Samples == 0..(ProbDen - 1)

Uses(sample) == sample < batch_use_prob

\* Mutant: the exception is recorded and the loop carries on.
RaiseAndCarryOn(e, line) ==
  /\ fault' = [error |-> e, line |-> line]
  /\ pc' = pc

\* An uncaught exception raised at `line` ends the run.
Raise(e, line) ==
  /\ fault' = [error |-> e, line |-> line]
  /\ pc' = "failed"

\* Mutant: the epoch count is read from the last net's settings.
epochs_of_last_net == train_settings[Len(train_settings)].epochs

\* line 89: range(train_settings[0].epochs)
epochs == train_settings[1].epochs

\* lines 124-125
EvalMode == [k \in 1..nets |-> "eval"]

\* Mutant: the nets are not switched back after validation.
ModeLeftAsIs == mode

\* lines 140-141
TrainMode == [k \in 1..nets |-> "train"]

\* Mutant: running_losses is created before the epoch loop and carried over.
CarriedRunningLosses ==
  IF range_next = 0 THEN Zeros(nets) ELSE running_losses

\* line 90
FreshRunningLosses == Zeros(nets)

\* line 121
FreshValidationTotals == Zeros(nets)

\* Mutant: validation_examples is created once and carried over the epochs.
CarriedValidationExamples ==
  IF validation_examples = <<>> THEN Zeros(nets) ELSE validation_examples

\* line 122
FreshValidationExamples == Zeros(nets)

\* Examples in the first `count` batches a loader yields (leading dimension of
\* each batch's first tensor).
RECURSIVE ExamplesIn(_, _)
ExamplesIn(loader, count) ==
  IF count = 0 THEN 0
  ELSE loader[count][1].dim + ExamplesIn(loader, count - 1)

TotalExamples(loader) == ExamplesIn(loader, Len(loader))

\* lines 81-88
Enter ==
  /\ pc = "entry"
  /\ sink_configured' = (log_dir # "")
  /\ train_log' = <<>>
  /\ min_validation_losses' = [k \in 1..nets |-> Inf]
  /\ min_validation_loss' = Inf
  /\ pc' = "epoch"
  /\ UNCHANGED <<fault, inputs, val_improved_marker, range_next, epoch, train_acc,
                 batch_pos, net_idx, input_vars, loss_value, train_stats, val_acc,
                 val_stats, net_id, netstate, disk, last_forward, console, sink,
                 returned, call>>

\* lines 89-95: the next epoch starts
EpochStart ==
  /\ pc = "epoch"
  /\ range_next < epochs
  /\ epoch' = range_next
  /\ range_next' = range_next + 1
  /\ running_losses' = FreshRunningLosses
  /\ train_examples_per_net' = Zeros(nets)
  /\ grads' = [k \in 1..Len(train_settings) |-> 0]
  /\ batch_pos' = 0
  /\ pc' = "train_fetch"
  /\ UNCHANGED <<fault, inputs, train_log, minima, net_idx, input_vars, loss_value,
                 train_stats, val_acc, val_stats, net_id, mode, device, params,
                 disk, last_forward, hooks, returned, call>>

\* line 89: range() is exhausted
EpochsDone ==
  /\ pc = "epoch"
  /\ range_next >= epochs
  /\ net_id' = 0
  /\ pc' = "last"
  /\ UNCHANGED <<fault, inputs, train_log, minima, range_next, epoch, train_acc,
                 batch_pos, net_idx, input_vars, loss_value, train_stats, val_acc,
                 val_stats, netstate, disk, last_forward, hooks, returned, call>>

\* lines 96-98
TrainFetch ==
  /\ pc = "train_fetch"
  /\ batch_pos < Len(train_loader)
  /\ batch_pos' = batch_pos + 1
  /\ LET split == DataBatchToVariables(train_loader[batch_pos + 1], num_inputs, num_labels)
     IN  IF split.raised # "none"
         THEN /\ Raise(split.raised, 97)
              /\ UNCHANGED <<input_vars, net_idx>>
         ELSE /\ input_vars' = split.input_vars
              /\ net_idx' = 0
              /\ pc' = "train_net"
              /\ UNCHANGED fault
  /\ UNCHANGED <<inputs, train_log, minima, range_next, epoch, train_acc, loss_value,
                 train_stats, val_acc, val_stats, net_id, netstate, disk,
                 last_forward, hooks, returned, call>>

\* lines 100-105: net net_idx draws its sample; forward pass and loss when it uses the batch
TrainForward ==
  /\ pc = "train_net"
  /\ net_idx < nets
  /\ \E sample \in Samples :
       IF Uses(sample)
       THEN /\ \E loss \in LossValues : loss_value' = loss
            /\ last_forward' = [phase |-> "train", net |-> net_idx,
                                mode |-> mode[net_idx + 1], dev |-> device[net_idx + 1]]
            /\ pc' = "backward"
            /\ UNCHANGED net_idx
       ELSE /\ net_idx' = net_idx + 1
            /\ UNCHANGED <<loss_value, last_forward, pc>>
  /\ UNCHANGED <<fault, inputs, train_log, minima, range_next, epoch, train_acc,
                 batch_pos, input_vars, train_stats, val_acc, val_stats, net_id,
                 netstate, disk, hooks, returned, call>>

\* line 106
Backward ==
  /\ pc = "backward"
  /\ grads' = [grads EXCEPT ![net_idx + 1] = @ + 1]
  /\ pc' = "opt_step"
  /\ UNCHANGED <<fault, inputs, train_log, minima, range_next, epoch, train_acc,
                 batch_pos, net_idx, input_vars, loss_value, train_stats, val_acc,
                 val_stats, net_id, mode, device, params, disk, last_forward, hooks,
                 returned, call>>

\* Mutant: the loop moves to the next net right after the optimizer step.
OptimizerStepThenNextNet ==
  /\ pc = "opt_step"
  /\ params' = [params EXCEPT ![net_idx + 1] = @ + 1]
  /\ net_idx' = net_idx + 1
  /\ pc' = "train_net"
  /\ UNCHANGED <<fault, inputs, train_log, minima, range_next, epoch, train_acc,
                 batch_pos, input_vars, loss_value, train_stats, val_acc,
                 val_stats, net_id, mode, device, grads, disk, last_forward, hooks,
                 returned, call>>

\* line 107
OptimizerStep ==
  /\ pc = "opt_step"
  /\ params' = [params EXCEPT ![net_idx + 1] = @ + 1]
  /\ pc' = "zero_grad"
  /\ UNCHANGED <<fault, inputs, train_log, minima, range_next, epoch, train_acc,
                 batch_pos, net_idx, input_vars, loss_value, train_stats, val_acc,
                 val_stats, net_id, mode, device, grads, disk, last_forward, hooks,
                 returned, call>>

\* input_vars[0].size()[0]
BatchSize == input_vars[1].dim

\* Mutant: the accumulators count batches instead of examples.
AccumulatePerBatch(totals, i, amount) == [totals EXCEPT ![i + 1] = @ + 1]

Accumulate(totals, i, amount) == [totals EXCEPT ![i + 1] = @ + amount]

\* Mutant: the gradients are not zeroed after the optimizer step.
AccumulateWithoutZeroGrad ==
  /\ pc = "zero_grad"
  /\ train_examples_per_net' = Accumulate(train_examples_per_net, net_idx, BatchSize)
  /\ running_losses' = Accumulate(running_losses, net_idx, loss_value * BatchSize)
  /\ net_idx' = net_idx + 1
  /\ pc' = "train_net"
  /\ UNCHANGED <<fault, inputs, train_log, minima, range_next, epoch, batch_pos,
                 input_vars, loss_value, train_stats, val_acc, val_stats, net_id,
                 netstate, disk, last_forward, hooks, returned, call>>

\* lines 108-113
ZeroGradAccumulate ==
  /\ pc = "zero_grad"
  /\ grads' = [grads EXCEPT ![net_idx + 1] = 0]
  /\ train_examples_per_net' = Accumulate(train_examples_per_net, net_idx, BatchSize)
  /\ running_losses' = Accumulate(running_losses, net_idx, loss_value * BatchSize)
  /\ net_idx' = net_idx + 1
  /\ pc' = "train_net"
  /\ UNCHANGED <<fault, inputs, train_log, minima, range_next, epoch, batch_pos,
                 input_vars, loss_value, train_stats, val_acc, val_stats, net_id,
                 mode, device, params, disk, last_forward, hooks, returned, call>>

\* line 100: enumerate(nets) is exhausted
TrainBatchDone ==
  /\ pc = "train_net"
  /\ net_idx >= nets
  /\ pc' = "train_fetch"
  /\ UNCHANGED <<fault, inputs, train_log, minima, range_next, epoch, train_acc,
                 batch_pos, net_idx, input_vars, loss_value, train_stats, val_acc,
                 val_stats, net_id, netstate, disk, last_forward, hooks, returned,
                 call>>

\* lines 114-125: the training source is exhausted. Line 119 divides by the
\* summed example count, which raises ZeroDivisionError when no net trained.
TrainEnd ==
  /\ pc = "train_fetch"
  /\ batch_pos >= Len(train_loader)
  /\ epoch_duration' = 1
  /\ examples_per_sec' = TrueDiv(Sum(train_examples_per_net), 1)
  /\ avg_losses' = AverageLosses(running_losses, train_examples_per_net)
  /\ IF Sum(train_examples_per_net) = 0
     THEN /\ Raise("ZeroDivisionError", 119)
          /\ UNCHANGED <<avg_loss, val_acc, mode, batch_pos>>
     ELSE /\ avg_loss' = TrueDiv(Sum(running_losses), Sum(train_examples_per_net))
          /\ validation_total_losses' = FreshValidationTotals
          /\ validation_examples' = FreshValidationExamples
          /\ mode' = EvalMode
          /\ batch_pos' = 0
          /\ pc' = "val_fetch"
          /\ UNCHANGED fault
  /\ UNCHANGED <<inputs, train_log, minima, range_next, epoch, train_acc, net_idx,
                 input_vars, loss_value, val_stats, net_id, device, params, grads,
                 disk, last_forward, hooks, returned, call>>

\* lines 127-129
ValFetch ==
  /\ pc = "val_fetch"
  /\ batch_pos < Len(val_loader)
  /\ batch_pos' = batch_pos + 1
  /\ LET split == DataBatchToVariables(val_loader[batch_pos + 1], num_inputs, num_labels)
     IN  IF split.raised # "none"
         THEN /\ Raise(split.raised, 128)
              /\ UNCHANGED <<input_vars, net_idx>>
         ELSE /\ input_vars' = split.input_vars
              /\ net_idx' = 0
              /\ pc' = "val_net"
              /\ UNCHANGED fault
  /\ UNCHANGED <<inputs, train_log, minima, range_next, epoch, train_acc, loss_value,
                 train_stats, val_acc, val_stats, net_id, netstate, disk,
                 last_forward, hooks, returned, call>>

\* lines 131-138: net net_idx evaluates the validation batch
ValForward ==
  /\ pc = "val_net"
  /\ net_idx < nets
  /\ \E loss \in LossValues :
       /\ loss_value' = loss
       /\ validation_total_losses' =
            Accumulate(validation_total_losses, net_idx, loss * BatchSize)
  /\ last_forward' = [phase |-> "val", net |-> net_idx,
                      mode |-> mode[net_idx + 1], dev |-> device[net_idx + 1]]
  /\ validation_examples' = Accumulate(validation_examples, net_idx, BatchSize)
  /\ net_idx' = net_idx + 1
  /\ UNCHANGED <<pc, fault, inputs, train_log, minima, range_next, epoch, train_acc,
                 batch_pos, input_vars, train_stats, val_stats, net_id, netstate,
                 disk, hooks, returned, call>>

\* line 131: enumerate(nets) is exhausted
ValBatchDone ==
  /\ pc = "val_net"
  /\ net_idx >= nets
  /\ pc' = "val_fetch"
  /\ UNCHANGED <<fault, inputs, train_log, minima, range_next, epoch, train_acc,
                 batch_pos, net_idx, input_vars, loss_value, train_stats, val_acc,
                 val_stats, net_id, netstate, disk, last_forward, hooks, returned,
                 call>>

epoch_metrics(train_loss, val_loss, duration, rate) ==
  [train_loss |-> train_loss, val_loss |-> val_loss,
   epoch_duration_sec |-> duration, examples_per_sec |-> rate]

\* What the validation phase that just ended saw: every net's average loss
\* (lines 143-144) and the parameters it was evaluated with.
Validated ==
  [losses |-> AverageLosses(validation_total_losses, validation_examples),
   params |-> params]

\* lines 140-159: the validation source is exhausted. Line 146 divides by the
\* summed example count, which raises ZeroDivisionError when it is zero.
ValEnd ==
  /\ pc = "val_fetch"
  /\ batch_pos >= Len(val_loader)
  /\ mode' = TrainMode
  /\ validation_avg_losses' = AverageLosses(validation_total_losses, validation_examples)
  /\ IF Sum(validation_examples) = 0
     THEN /\ Raise("ZeroDivisionError", 146)
          /\ UNCHANGED <<validation_avg_loss, validated, train_log, min_validation_loss,
                         val_improved_marker, net_idx>>
     ELSE LET pooled == TrueDiv(Sum(validation_total_losses), Sum(validation_examples))
              improved == Less(pooled, min_validation_loss)
          IN  /\ validation_avg_loss' = pooled
              /\ validated' = Append(validated, Validated)
              /\ train_log' = Append(train_log,
                   epoch_metrics(avg_loss, pooled, epoch_duration, examples_per_sec))
              /\ val_improved_marker' = IF improved THEN " **" ELSE ""
              /\ min_validation_loss' = IF improved THEN pooled ELSE min_validation_loss
              /\ net_idx' = 0
              /\ pc' = "ckpt"
              /\ UNCHANGED fault
  /\ UNCHANGED <<inputs, min_validation_losses, range_next, epoch, train_acc,
                 batch_pos, input_vars, loss_value, train_stats, val_acc, net_id,
                 device, params, grads, disk, last_forward, hooks, returned, call>>

\* Mutant: an equal loss counts as an improvement.
ImprovedOrEqual(i) == ~Less(min_validation_losses[i + 1], validation_avg_losses[i + 1])

\* line 162
Improved(i) == Less(validation_avg_losses[i + 1], min_validation_losses[i + 1])

\* lines 161-162: net net_idx has not improved on its minimum
CheckpointSkip ==
  /\ pc = "ckpt"
  /\ net_idx < nets
  /\ ~Improved(net_idx)
  /\ net_idx' = net_idx + 1
  /\ UNCHANGED <<pc, fault, inputs, train_log, minima, range_next, epoch, train_acc,
                 batch_pos, input_vars, loss_value, train_stats, val_acc, val_stats,
                 net_id, netstate, disk, last_forward, hooks, returned, call>>

\* lines 161-163: net net_idx improved; move it to host memory
CheckpointCpu ==
  /\ pc = "ckpt"
  /\ net_idx < nets
  /\ Improved(net_idx)
  /\ device' = [device EXCEPT ![net_idx + 1] = "cpu"]
  /\ pc' = "ckpt_save"
  /\ UNCHANGED <<fault, inputs, train_log, minima, range_next, epoch, train_acc,
                 batch_pos, net_idx, input_vars, loss_value, train_stats, val_acc,
                 val_stats, net_id, mode, params, grads, disk, last_forward, hooks,
                 returned, call>>

\* torch.save(net.state_dict(), out_prefix + '-' + str(i) + '-' + kind + '.pth')
Save(i, kind) ==
  /\ files' = [files EXCEPT ![<<i, kind>>] = <<params[i + 1]>>]
  /\ writes' = [writes EXCEPT ![<<i, kind>>] = @ + 1]
  /\ last_save' = [kind |-> kind, net |-> i, dev |-> device[i + 1]]

\* lines 164-165
CheckpointSave ==
  /\ pc = "ckpt_save"
  /\ Save(net_idx, "best")
  /\ pc' = "ckpt_cuda"
  /\ UNCHANGED <<fault, inputs, train_log, minima, range_next, epoch, train_acc,
                 batch_pos, net_idx, input_vars, loss_value, train_stats, val_acc,
                 val_stats, net_id, netstate, last_forward, hooks, returned, call>>

\* Mutant: the net is not moved back to the device after the write.
CheckpointStaysOnHost ==
  /\ pc = "ckpt_cuda"
  /\ min_validation_losses' =
       [min_validation_losses EXCEPT ![net_idx + 1] = validation_avg_losses[net_idx + 1]]
  /\ net_idx' = net_idx + 1
  /\ pc' = "ckpt"
  /\ UNCHANGED <<fault, inputs, train_log, min_validation_loss, val_improved_marker,
                 range_next, epoch, train_acc, batch_pos, input_vars, loss_value,
                 train_stats, val_acc, val_stats, net_id, netstate, disk,
                 last_forward, hooks, returned, call>>

\* Mutant: the minimum is not updated after the write.
CheckpointKeepsMinimum ==
  /\ pc = "ckpt_cuda"
  /\ device' = [device EXCEPT ![net_idx + 1] = "cuda"]
  /\ net_idx' = net_idx + 1
  /\ pc' = "ckpt"
  /\ UNCHANGED <<fault, inputs, train_log, minima, range_next, epoch, train_acc,
                 batch_pos, input_vars, loss_value, train_stats, val_acc, val_stats,
                 net_id, mode, params, grads, disk, last_forward, hooks, returned,
                 call>>

\* lines 166-167
CheckpointCuda ==
  /\ pc = "ckpt_cuda"
  /\ device' = [device EXCEPT ![net_idx + 1] = "cuda"]
  /\ min_validation_losses' =
       [min_validation_losses EXCEPT ![net_idx + 1] = validation_avg_losses[net_idx + 1]]
  /\ net_idx' = net_idx + 1
  /\ pc' = "ckpt"
  /\ UNCHANGED <<fault, inputs, train_log, min_validation_loss, val_improved_marker,
                 range_next, epoch, train_acc, batch_pos, input_vars, loss_value,
                 train_stats, val_acc, val_stats, net_id, mode, params, grads, disk,
                 last_forward, hooks, returned, call>>

\* tensorboard_logger.log_value(name, value, step)
log_value(name, value, step) == [name |-> name, value |-> value, step |-> step]

\* Mutant: the step of the two values is the number of log entries so far.
log_values_by_entry_count ==
  <<log_value("train_loss", avg_loss, Len(train_log)),
    log_value("val_loss", validation_avg_loss, Len(train_log))>>

\* lines 175-176
log_values ==
  <<log_value("train_loss", avg_loss, epoch),
    log_value("val_loss", validation_avg_loss, epoch)>>

\* Mutant: the epoch's entry stays in the log only when print_log is set.
HooksKeepEntryWhenPrinting ==
  /\ pc = "ckpt"
  /\ net_idx >= nets
  /\ console' = IF print_log
                THEN Append(console, [epoch |-> epoch, event |-> train_log[Len(train_log)],
                                      marker |-> val_improved_marker])
                ELSE console
  /\ train_log' = IF print_log THEN train_log
                  ELSE SubSeq(train_log, 1, Len(train_log) - 1)
  /\ sink' = IF log_dir # "" THEN sink \o log_values ELSE sink
  /\ pc' = "epoch"
  /\ UNCHANGED <<fault, inputs, minima, range_next, epoch, train_acc,
                 batch_pos, net_idx, input_vars, loss_value, train_stats, val_acc,
                 val_stats, net_id, netstate, disk, last_forward, sink_configured,
                 returned, call>>

\* lines 169-176: enumerate(nets) is exhausted; the logging hooks
Hooks ==
  /\ pc = "ckpt"
  /\ net_idx >= nets
  /\ console' = IF print_log
                THEN Append(console, [epoch |-> epoch, event |-> train_log[Len(train_log)],
                                      marker |-> val_improved_marker])
                ELSE console
  /\ sink' = IF log_dir # "" THEN sink \o log_values ELSE sink
  /\ pc' = "epoch"
  /\ UNCHANGED <<fault, inputs, train_log, minima, range_next, epoch, train_acc,
                 batch_pos, net_idx, input_vars, loss_value, train_stats, val_acc,
                 val_stats, net_id, netstate, disk, last_forward, sink_configured,
                 returned, call>>

\* lines 178-179
LastCpu ==
  /\ pc = "last"
  /\ net_id < nets
  /\ device' = [device EXCEPT ![net_id + 1] = "cpu"]
  /\ pc' = "last_save"
  /\ UNCHANGED <<fault, inputs, train_log, minima, range_next, epoch, train_acc,
                 batch_pos, net_idx, input_vars, loss_value, train_stats, val_acc,
                 val_stats, net_id, mode, params, grads, disk, last_forward, hooks,
                 returned, call>>

\* line 180
LastSave ==
  /\ pc = "last_save"
  /\ Save(net_id, "last")
  /\ pc' = "last_cuda"
  /\ UNCHANGED <<fault, inputs, train_log, minima, range_next, epoch, train_acc,
                 batch_pos, net_idx, input_vars, loss_value, train_stats, val_acc,
                 val_stats, net_id, netstate, last_forward, hooks, returned, call>>

\* line 181
LastCuda ==
  /\ pc = "last_cuda"
  /\ device' = [device EXCEPT ![net_id + 1] = "cuda"]
  /\ net_id' = net_id + 1
  /\ pc' = "last"
  /\ UNCHANGED <<fault, inputs, train_log, minima, range_next, epoch, train_acc,
                 batch_pos, net_idx, input_vars, loss_value, train_stats, val_acc,
                 val_stats, mode, params, grads, disk, last_forward, hooks, returned,
                 call>>

\* Mutant: the return statement sits inside the final loop.
ReturnInsideLoop ==
  /\ pc = "last"
  /\ net_id >= 1
  /\ returned' = <<train_log>>
  /\ pc' = "done"
  /\ UNCHANGED <<fault, inputs, train_log, minima, range_next, epoch, train_acc,
                 batch_pos, net_idx, input_vars, loss_value, train_stats, val_acc,
                 val_stats, net_id, netstate, disk, last_forward, hooks, call>>

\* line 183
Return ==
  /\ pc = "last"
  /\ net_id >= nets
  /\ returned' = <<train_log>>
  /\ pc' = "done"
  /\ UNCHANGED <<fault, inputs, train_log, minima, range_next, epoch, train_acc,
                 batch_pos, net_idx, input_vars, loss_value, train_stats, val_acc,
                 val_stats, net_id, netstate, disk, last_forward, hooks, call>>

\* ------------------------------------------------ faults of the runtime
\* The faults that do not come from the data handed to TrainModels.
RuntimeFaults == {"ShapeMismatch", "DeviceTransferFailure"}

\* Exceptions that torch raises from inside TrainModels. Nothing in the file
\* catches them: each one leaves every local as it is and ends the call.
Abort(e, line) ==
  /\ Raise(e, line)
  /\ UNCHANGED <<inputs, train_log, minima, range_next, epoch, train_acc, batch_pos,
                 net_idx, input_vars, loss_value, train_stats, val_acc, val_stats,
                 net_id, netstate, disk, last_forward, hooks, returned, call>>

\* lines 97, 66-69: Variable(x).cuda() fails on a batch of the training source
TrainTransferFault ==
  /\ pc = "train_fetch"
  /\ batch_pos < Len(train_loader)
  /\ BatchLenOk(train_loader[batch_pos + 1], num_inputs, num_labels)
  /\ Abort("DeviceTransferFailure", 97)

\* lines 103-105: the outputs of net net_idx do not fit the labels or the weights
TrainLossFault ==
  /\ pc = "train_net"
  /\ net_idx < nets
  /\ \E sample \in Samples : Uses(sample)
  /\ Abort("ShapeMismatch", 104)

\* lines 128, 66-69: Variable(x).cuda() fails on a batch of the validation source
ValTransferFault ==
  /\ pc = "val_fetch"
  /\ batch_pos < Len(val_loader)
  /\ BatchLenOk(val_loader[batch_pos + 1], num_inputs, num_labels)
  /\ Abort("DeviceTransferFailure", 128)

\* lines 132-134
ValLossFault ==
  /\ pc = "val_net"
  /\ net_idx < nets
  /\ Abort("ShapeMismatch", 133)

\* line 163: net.cpu() fails
CheckpointCpuFault ==
  /\ pc = "ckpt"
  /\ net_idx < nets
  /\ Improved(net_idx)
  /\ Abort("DeviceTransferFailure", 163)

\* line 166: net.cuda() fails after the write
CheckpointCudaFault ==
  /\ pc = "ckpt_cuda"
  /\ Abort("DeviceTransferFailure", 166)

\* line 179: net.cpu() fails
LastCpuFault ==
  /\ pc = "last"
  /\ net_id < nets
  /\ Abort("DeviceTransferFailure", 179)

\* line 181: net.cuda() fails after the write
LastCudaFault ==
  /\ pc = "last_cuda"
  /\ Abort("DeviceTransferFailure", 181)

Next ==
  \/ Enter
  \/ EpochStart
  \/ EpochsDone
  \/ TrainFetch
  \/ TrainForward
  \/ Backward
  \/ OptimizerStep
  \/ ZeroGradAccumulate
  \/ TrainBatchDone
  \/ TrainEnd
  \/ ValFetch
  \/ ValForward
  \/ ValBatchDone
  \/ ValEnd
  \/ CheckpointSkip
  \/ CheckpointCpu
  \/ CheckpointSave
  \/ CheckpointCuda
  \/ Hooks
  \/ LastCpu
  \/ LastSave
  \/ LastCuda
  \/ Return
  \/ TrainTransferFault
  \/ TrainLossFault
  \/ ValTransferFault
  \/ ValLossFault
  \/ CheckpointCpuFault
  \/ CheckpointCudaFault
  \/ LastCpuFault
  \/ LastCudaFault

Spec == Init /\ [][Next]_vars

\* ------------------------------------------- direct calls of the helpers
\* TrainModels is not running: its inputs and locals stay as they are.
Idle ==
  /\ InitLocals
  /\ nets = 1
  /\ train_settings = <<[epochs |-> 0]>>
  /\ train_loader = <<>>
  /\ val_loader = <<>>
  /\ batch_use_prob = ProbDen
  /\ print_log = TRUE
  /\ log_dir = ""
  /\ mode = <<"train">>
  /\ device = <<"cuda">>
  /\ params = <<0>>
  /\ grads = <<0>>

rest == <<pc, fault, inputs, train_log, minima, range_next, epoch, train_acc,
          batch_pos, net_idx, input_vars, loss_value, train_stats, val_acc,
          val_stats, net_id, netstate, disk, last_forward, hooks, returned>>

Lists(n) == [1..n -> 0..MaxValue]

InitAverage ==
  /\ Idle
  /\ \E n \in 0..MaxLen :
       \E losses \in Lists(n), examples \in Lists(n) :
         call = [op |-> "AverageLosses", total_losses |-> losses,
                 total_examples |-> examples, done |-> FALSE, result |-> <<>>]

CallAverageLosses ==
  /\ ~call.done
  /\ call.op = "AverageLosses"
  /\ call' = [call EXCEPT !.done = TRUE,
                          !.result = AverageLosses(call.total_losses, call.total_examples)]
  /\ UNCHANGED rest

SpecAverage == InitAverage /\ [][CallAverageLosses]_vars

InitSplit ==
  /\ Idle
  /\ \E size \in 1..MaxValue, len \in 0..(2 * MaxArity + 2) :
       \E ni \in 0..MaxArity, nl \in 0..MaxArity :
         call = [op |-> "DataBatchToVariables", batch |-> MkBatch(size, len),
                 num_inputs |-> ni, num_labels |-> nl, done |-> FALSE,
                 result |-> [raised |-> "none"]]

CallDataBatchToVariables ==
  /\ ~call.done
  /\ call.op = "DataBatchToVariables"
  /\ call' = [call EXCEPT !.done = TRUE,
                          !.result = DataBatchToVariables(call.batch, call.num_inputs,
                                                          call.num_labels)]
  /\ UNCHANGED rest

SpecSplit == InitSplit /\ [][CallDataBatchToVariables]_vars

\* ------------------------------------------------- hyperparams_search.py
MaxFolds == 3

MaxParallelism == 2

MaxNetsToTrain == 1

\* Values of the settings id field in the settings files the glob matches.
SettingsIds == {"a", "b"}

\* os.path.join(base, settings_json[training_helpers.SETTINGS_ID])
PathJoin(base, id) == <<base, id>>

\* optimize.py lines 164, 180: out_prefix + '-' + str(i) + '-' + kind + '.pth'
CheckpointPath(out_prefix, i, kind) == <<out_prefix, i, kind>>

\* The files one TrainModels call of n nets writes, in the order it writes them
\* when every net improves in its first epoch: every "best", then every "last".
SaveOrder(n) ==
  [k \in 1..(2 * n) |-> IF k <= n THEN <<k - 1, "best">> ELSE <<k - n - 1, "last">>]

\* lines 81-89: one TrainingFoldSettings for every settings file
per_fold_settings(jsons, n) ==
  [k \in 1..Len(jsons) |->
     [training_settings_json |-> jsons[k], base_out_dir |-> "out",
      base_log_dir |-> "log", num_nets_to_train |-> n]]

IdleWorker == [at |-> "idle", fold |-> 0, out_dir |-> <<>>, log_dir |-> <<>>, saved |-> 0]

InitSearch ==
  /\ Idle
  /\ \E len \in 1..MaxFolds, parallelism \in 1..MaxParallelism, n \in 1..MaxNetsToTrain :
       \E ids \in [1..len -> SettingsIds] :
         call = [op |-> "hyperparams_search",
                 per_fold_settings |->
                   per_fold_settings([k \in 1..len |-> [settings_id |-> ids[k]]], n),
                 next |-> 1,
                 worker |-> [w \in 1..parallelism |-> IdleWorker],
                 invocations |-> <<>>,
                 written |-> {},
                 printed |-> <<>>,
                 done |-> FALSE]

\* line 102: Pool.map hands the next element of the list to a free worker process
PoolMapTake ==
  /\ call.op = "hyperparams_search"
  /\ call.next <= Len(call.per_fold_settings)
  /\ \E w \in DOMAIN call.worker :
       /\ call.worker[w].at = "idle"
       /\ call' = [call EXCEPT !.next = @ + 1,
                               !.worker[w].at = "RunTraining",
                               !.worker[w].fold = call.next]
  /\ UNCHANGED rest

\* lines 30-46: RunTraining builds its trainer and directories and calls TrainModels
RunTraining ==
  /\ call.op = "hyperparams_search"
  /\ \E w \in DOMAIN call.worker :
       /\ call.worker[w].at = "RunTraining"
       /\ LET fold_settings == call.per_fold_settings[call.worker[w].fold]
              id == fold_settings.training_settings_json.settings_id
              out_dir == PathJoin(fold_settings.base_out_dir, id)
              log_dir_ == PathJoin(fold_settings.base_log_dir, id)
          IN  call' = [call EXCEPT
                         !.worker[w].at = "TrainModels",
                         !.worker[w].out_dir = out_dir,
                         !.worker[w].log_dir = log_dir_,
                         !.worker[w].saved = 0,
                         !.invocations = Append(@, [fold |-> call.worker[w].fold,
                                                    out_prefix |-> out_dir,
                                                    log_dir |-> log_dir_])]
  /\ UNCHANGED rest

\* optimize.py lines 164, 180: the running TrainModels call writes its next file
TrainModelsSave ==
  /\ call.op = "hyperparams_search"
  /\ \E w \in DOMAIN call.worker :
       /\ call.worker[w].at = "TrainModels"
       /\ LET n == call.per_fold_settings[call.worker[w].fold].num_nets_to_train
              k == call.worker[w].saved + 1
          IN  /\ k <= 2 * n
              /\ call' = [call EXCEPT
                            !.worker[w].saved = k,
                            !.written = @ \cup
                              {[path |-> CheckpointPath(call.worker[w].out_dir,
                                                        SaveOrder(n)[k][1], SaveOrder(n)[k][2]),
                                fold |-> call.worker[w].fold]}]
  /\ UNCHANGED rest

\* line 55: TrainModels returned; RunTraining prints the settings id and ends
RunTrainingReturn ==
  /\ call.op = "hyperparams_search"
  /\ \E w \in DOMAIN call.worker :
       /\ call.worker[w].at = "TrainModels"
       /\ LET fold_settings == call.per_fold_settings[call.worker[w].fold]
          IN  /\ call.worker[w].saved = 2 * fold_settings.num_nets_to_train
              /\ call' = [call EXCEPT
                            !.worker[w] = IdleWorker,
                            !.printed = Append(@, fold_settings.training_settings_json.settings_id)]
  /\ UNCHANGED rest

\* lines 101-102: map returns when every element has been run; the pool closes
PoolMapReturn ==
  /\ call.op = "hyperparams_search"
  /\ ~call.done
  /\ call.next > Len(call.per_fold_settings)
  /\ \A w \in DOMAIN call.worker : call.worker[w].at = "idle"
  /\ call' = [call EXCEPT !.done = TRUE]
  /\ UNCHANGED rest

NextSearch ==
  \/ PoolMapTake
  \/ RunTraining
  \/ TrainModelsSave
  \/ RunTrainingReturn
  \/ PoolMapReturn

SpecSearch == InitSearch /\ [][NextSearch]_vars

\* ----------------------------------------------------------------- claims
TrainPcs == {"train_fetch", "train_net", "backward", "opt_step", "zero_grad"}

ValPcs == {"val_fetch", "val_net"}

CkptPcs == {"ckpt", "ckpt_save", "ckpt_cuda"}

LastPcs == {"last", "last_save", "last_cuda"}

Best(i) == <<i, "best">>

Last(i) == <<i, "last">>

WellFormed(loader) ==
  \A k \in 1..Len(loader) : BatchLenOk(loader[k], num_inputs, num_labels)

\* This epoch's validation loss of net i is strictly below the minimum held for it.
StrictlyBelowMinimum(i) ==
  validation_avg_losses[i + 1].n * min_validation_losses[i + 1].d
    < min_validation_losses[i + 1].n * validation_avg_losses[i + 1].d

\* What one step may do to net i's minimum and "-i-best" file. A net that
\* improved goes on to its write unless the transfer to host memory fails.
CheckpointStep(i) ==
  /\ pc = "entry" => min_validation_losses'[i + 1] = Inf
  /\ pc # "entry" =>
       /\ ~Less(min_validation_losses[i + 1], min_validation_losses'[i + 1])
       /\ min_validation_losses'[i + 1] # min_validation_losses[i + 1] =>
            /\ StrictlyBelowMinimum(i)
            /\ min_validation_losses'[i + 1] = validation_avg_losses[i + 1]
  /\ writes'[Best(i)] # writes[Best(i)] =>
       /\ writes'[Best(i)] = writes[Best(i)] + 1
       /\ pc \in CkptPcs
       /\ net_idx = i
       /\ StrictlyBelowMinimum(i)
  /\ (pc = "ckpt" /\ net_idx = i /\ StrictlyBelowMinimum(i)) =>
       (pc' \in {"ckpt_save", "failed"} /\ net_idx' = i)
  /\ (pc = "ckpt_save" /\ net_idx = i) => writes'[Best(i)] = writes[Best(i)] + 1
  /\ (pc = "ckpt" /\ net_idx = i /\ ~StrictlyBelowMinimum(i)) =>
       (net_idx' = i + 1 /\ files' = files)

\* C1: min_validation_losses[i] is +infinity when the run starts and no step ever
\* raises it; a step writes the "-i-best" file exactly when the checkpoint step
\* reaches net i with this epoch's validation_avg_losses[i] strictly below the
\* minimum held so far, the minimum changes only to that strictly lower loss, and
\* the checkpoint step passes a net whose loss is equal or higher without writing.
CheckpointMonotonicity == [][\A i \in NetIdx : CheckpointStep(i)]_vars

\* C1 witness: in the second epoch net 0 repeated its minimum exactly and the
\* checkpoint step went past it with the file still written once.
TieNotRewritten ==
  /\ pc = "ckpt"
  /\ epoch = 1
  /\ net_idx = 1
  /\ validation_avg_losses[1] = min_validation_losses[1]
  /\ writes[Best(0)] = 1

\* C2: with batch_use_prob = 0.0 on a non-empty, well-formed training source no
\* net takes a gradient step, no net accumulates a training example, every
\* per-net training average is +infinity once computed, and the training phase
\* ends without raising.
ZeroProbEpochCompletes ==
  (batch_use_prob = 0 /\ train_loader # <<>> /\ WellFormed(train_loader)) =>
    /\ \A i \in NetIdx : params[i + 1] = 0
    /\ \A k \in 1..Len(train_examples_per_net) : train_examples_per_net[k] = 0
    /\ \A k \in 1..Len(avg_losses) : avg_losses[k] = Inf
    /\ ~(pc = "failed" /\ fault.line = 119)

\* C3: an accumulation window that saw no example yields +infinity and the run
\* goes on: no run ends with the division by a zero example count.
ZeroDataWindowNonFatal == ~(pc = "failed" /\ fault.error = "ZeroDivisionError")

\* C4: the "-i-last" file of every net is never written twice, is written once
\* in every run that returned, and once it is written the epoch loop is over:
\* the log holds an entry for every epoch and the run is in its final
\* checkpoint loop (where a device transfer may have ended it) or has returned,
\* so no validation, log append or "best" write can follow it.
LastWrittenOnceAtEnd ==
  \A i \in NetIdx :
    /\ writes[Last(i)] <= 1
    /\ pc = "done" => writes[Last(i)] = 1 /\ files[Last(i)] # <<>>
    /\ writes[Last(i)] = 1 =>
         /\ \/ pc \in LastPcs \cup {"done"}
            \/ pc = "failed" /\ fault.line >= 178
         /\ range_next >= epochs
         /\ Len(train_log) = epochs

\* C4 witness: a run of two epochs returned, net 0 wrote "best" twice and
\* "last" once.
ReturnedAfterTwoBestWrites ==
  /\ pc = "done"
  /\ epochs = 2
  /\ writes[Best(0)] = 2
  /\ writes[Last(0)] = 1

\* C5: with batch_use_prob = 1.0, once the training phase of an epoch is over
\* every net has accumulated exactly the examples of the whole training source,
\* and during the phase every net has those of all the batches it was offered.
FullParticipation ==
  batch_use_prob = ProbDen =>
    /\ pc \in ValPcs \cup CkptPcs =>
         \A i \in NetIdx :
           train_examples_per_net[i + 1] = TotalExamples(train_loader)
    /\ pc = "train_fetch" =>
         \A i \in NetIdx :
           train_examples_per_net[i + 1] = ExamplesIn(train_loader, batch_pos)

\* C5 witness: a training phase over a source of two batches ended at
\* probability 1 with both batches counted.
ConsumedTwoBatches ==
  /\ batch_use_prob = ProbDen
  /\ pc = "val_fetch"
  /\ Len(train_loader) = 2
  /\ train_examples_per_net = <<2>>

BestFiles == {f \in FileNames : f[2] = "best" /\ files[f] # <<>>}

LastFiles == {f \in FileNames : f[2] = "last" /\ files[f] # <<>>}

\* C6: the log grows by one entry per epoch, in step with the epoch counter; a
\* run that returned hands back a log of exactly train_settings[0].epochs
\* entries whatever the other nets' settings say; and with at least one epoch,
\* batch_use_prob = 1.0 and non-empty well-formed sources the run fails only
\* if torch raises (a shape mismatch or a failed device transfer), and when it
\* returns there is one "best" and one "last" file per net index and no other,
\* and every logged loss is finite.
LogLengthAndArtifacts ==
  /\ pc # "entry" =>
       /\ Len(train_log) <= range_next
       /\ range_next <= Len(train_log) + 1
       /\ pc \in {"epoch"} \cup CkptPcs \cup LastPcs \cup {"done"} =>
            Len(train_log) = range_next
  /\ pc = "done" =>
       /\ returned = <<train_log>>
       /\ Len(returned[1]) = train_settings[1].epochs
  /\ (/\ train_settings[1].epochs >= 1
      /\ batch_use_prob = ProbDen
      /\ train_loader # <<>> /\ WellFormed(train_loader)
      /\ val_loader # <<>> /\ WellFormed(val_loader)) =>
       /\ pc = "failed" => fault.error \in RuntimeFaults
       /\ pc = "done" =>
            /\ BestFiles = {Best(i) : i \in NetIdx}
            /\ LastFiles = {Last(i) : i \in NetIdx}
            /\ \A k \in 1..Len(train_log) :
                 IsFinite(train_log[k].train_loss) /\ IsFinite(train_log[k].val_loss)

\* C6 witness: two nets, whose settings carry different epoch counts, trained
\* for at least one epoch at probability 1 and the run returned.
TwoNetsReturned ==
  /\ pc = "done"
  /\ nets = 2
  /\ batch_use_prob = ProbDen
  /\ train_settings[1].epochs >= 1
  /\ train_settings[2].epochs # train_settings[1].epochs
  /\ Cardinality(BestFiles) = 2

\* C7: every training forward pass ran with its net in train mode, during the
\* validation phase and at every validation forward pass all nets are in
\* evaluation mode, all nets are in train mode throughout the training phase,
\* and when the run has returned every net is in train mode and on the device.
ModeDiscipline ==
  /\ last_forward.phase = "train" => last_forward.mode = "train"
  /\ last_forward.phase = "val" => last_forward.mode = "eval"
  /\ pc \in TrainPcs => \A i \in NetIdx : mode[i + 1] = "train"
  /\ pc \in ValPcs => \A i \in NetIdx : mode[i + 1] = "eval"
  /\ pc = "done" => \A i \in NetIdx : mode[i + 1] = "train" /\ device[i + 1] = "cuda"

\* C7 witness: a training forward pass of the second epoch, after a validation
\* phase has switched the nets to evaluation mode and back.
SecondEpochTrainingPass ==
  /\ pc = "backward"
  /\ epoch = 1
  /\ last_forward.phase = "train"

\* C8: whatever batch_use_prob is, the validation accumulators are zero when
\* the validation pass starts, every net has evaluated exactly the batches
\* yielded so far, and after the pass every net's validation_examples is the
\* number of examples of the whole validation source.
ValidationFullPass ==
  /\ (pc = "val_fetch" /\ batch_pos = 0) =>
       (validation_examples = Zeros(nets) /\ validation_total_losses = Zeros(nets))
  /\ pc = "val_fetch" =>
       \A i \in NetIdx : validation_examples[i + 1] = ExamplesIn(val_loader, batch_pos)
  /\ pc = "val_net" =>
       \A i \in NetIdx :
         validation_examples[i + 1] =
           ExamplesIn(val_loader, IF i < net_idx THEN batch_pos ELSE batch_pos - 1)
  /\ pc \in CkptPcs =>
       \A i \in NetIdx : validation_examples[i + 1] = TotalExamples(val_loader)

\* C8 witness: the second epoch's validation pass is over, at a probability
\* below 1, with the validation source's examples counted once.
SecondValidationPassCounted ==
  /\ pc = "ckpt"
  /\ epoch = 1
  /\ batch_use_prob < ProbDen
  /\ val_loader # <<>>
  /\ validation_examples[1] = TotalExamples(val_loader)

Same(t, x) == t.id = x.id /\ t.dim = x.dim /\ t.dev = "cuda"

\* The result of a finished DataBatchToVariables call against its arguments.
SplitResult ==
  (call.op = "DataBatchToVariables" /\ call.done) =>
    LET B == call.batch
        ni == call.num_inputs
        nl == call.num_labels
        r == call.result
    IN  IF Len(B) = ni + nl + 1
        THEN /\ r.raised = "none"
             /\ Len(r.input_vars) = ni
             /\ Len(r.label_vars) = nl
             /\ Len(r.input_vars) + Len(r.label_vars) + 1 = Len(B)
             /\ \A k \in 1..ni : Same(r.input_vars[k], B[k])
             /\ \A k \in 1..nl : Same(r.label_vars[k], B[ni + k])
             /\ Same(r.weights_var, B[ni + nl + 1])
             /\ \A k \in 1..Len(B) : B[k].dev = "host"
        ELSE r = [raised |-> "AssertionError"]

\* C9: a call of DataBatchToVariables on a batch of num_inputs + num_labels + 1
\* tensors returns the first num_inputs tensors as inputs, the next num_labels
\* as labels and the last as weights, len(inputs) + len(labels) + 1 being
\* len(batch); on any other length it raises and returns nothing; the batch
\* passed in is the same before and after the call.
SplitBatchPartitions ==
  /\ []SplitResult
  /\ [][call.op = "DataBatchToVariables" => call'.batch = call.batch]_vars

\* C9 witness: a batch of four tensors was split into two inputs, one label
\* and the weights.
SplitTwoInputsOneLabel ==
  /\ call.op = "DataBatchToVariables"
  /\ call.done
  /\ call.num_inputs = 2
  /\ call.num_labels = 1
  /\ call.result.raised = "none"

\* The result of a finished AverageLosses call against its arguments.
AverageResult ==
  /\ AverageLosses(<<10>>, <<5>>) = <<Float(2)>>
  /\ AverageLosses(<<10>>, <<0>>) = <<Inf>>
  /\ (call.op = "AverageLosses" /\ call.done) =>
       /\ Len(call.result) = Len(call.total_losses)
       /\ \A k \in 1..Len(call.total_losses) :
            LET x == call.total_losses[k]
                y == call.total_examples[k]
                q == call.result[k]
            IN  /\ y > 0 => (q.d > 0 /\ q.n * y = x * q.d /\ GCD(q.n, q.d) = 1)
                /\ y = 0 => q = Inf

\* C10: a call of AverageLosses on two lists of the same length returns a list
\* of that length whose k-th element times total_examples[k] is total_losses[k]
\* where the count is positive and is +infinity where the count is 0; the
\* arguments are the same before and after the call; ([10.0], [5]) gives [2.0]
\* and ([10.0], [0]) gives [inf].
AverageLossesPure ==
  /\ []AverageResult
  /\ [][call.op = "AverageLosses" =>
          /\ call'.total_losses = call.total_losses
          /\ call'.total_examples = call.total_examples]_vars

\* C10 witness: a two-element call with one zero count and one count that does
\* not divide its loss.
AveragedWithZeroCount ==
  /\ call.op = "AverageLosses"
  /\ call.done
  /\ call.total_losses = <<3, 3>>
  /\ call.total_examples = <<0, 2>>
  /\ call.result = <<Inf, [n |-> 3, d |-> 2]>>

\* ------------------------------------------------------------------- C11
\* The fault was raised by a statement of the epoch loop (lines 89-176).
FaultInEpoch == fault # NoFault /\ fault.line < 178

\* C11: once a statement of an epoch has raised (a malformed batch, a shape
\* mismatch, a failed device transfer, in the checkpoint step too), the run has
\* ended and takes no further step, nothing was returned to the caller, and
\* neither the console nor the metrics sink holds a record of that epoch.
NoPartialMetrics ==
  FaultInEpoch =>
    /\ pc = "failed"
    /\ ~ENABLED Next
    /\ returned = <<>>
    /\ \A k \in 1..Len(console) : console[k].epoch # epoch
    /\ \A k \in 1..Len(sink) : sink[k].step # epoch

\* C11 witness: the second epoch wrote a best checkpoint and the transfer back
\* to the device failed, with the first epoch's metrics already in the sink.
FaultInSecondCheckpointStep ==
  /\ pc = "failed"
  /\ fault = [error |-> "DeviceTransferFailure", line |-> 166]
  /\ epoch = 1
  /\ Len(train_log) = 2
  /\ Len(sink) = 2

\* ------------------------------------------------------------------- C12
\* Everything a run holds apart from its position, the two observability
\* arguments and what the hooks have emitted.
unobserved == <<fault, nets, train_loader, val_loader, train_settings, batch_use_prob,
                train_log, minima, range_next, epoch, train_acc, batch_pos, net_idx,
                input_vars, loss_value, train_stats, val_acc, val_stats, net_id,
                netstate, disk, last_forward, returned>>

\* line 81: the statement that reads log_dir to configure the sink
AtConfigure == pc = "entry"

\* lines 169-176: the statements that read print_log and log_dir
AtHooks == pc = "ckpt" /\ net_idx >= nets

\* What a step may do with the observability arguments and the hook outputs.
HookStep ==
  /\ UNCHANGED <<print_log, log_dir>>
  /\ hooks' # hooks => AtConfigure \/ AtHooks
  /\ AtHooks => pc' = "epoch" /\ UNCHANGED unobserved
  /\ AtConfigure =>
       /\ pc' = "epoch"
       /\ train_log' = <<>>
       /\ min_validation_losses' = [k \in 1..nets |-> Inf]
       /\ min_validation_loss' = Inf
       /\ UNCHANGED <<fault, nets, train_loader, val_loader, train_settings,
                      batch_use_prob, val_improved_marker, range_next, epoch, train_acc,
                      batch_pos, net_idx, input_vars, loss_value, train_stats, val_acc,
                      val_stats, net_id, netstate, disk, last_forward, returned>>

CompletedEpochs ==
  IF pc = "entry" THEN 0
  ELSE IF pc \in TrainPcs \cup ValPcs \cup CkptPcs \/ (pc = "failed" /\ FaultInEpoch)
  THEN range_next - 1
  ELSE range_next

\* C13: with a non-empty log_dir the sink holds, for every completed epoch e in
\* increasing order and for no other, one train_loss value and then one
\* val_loss value, both at step e and equal to the pooled losses of the log
\* entry of epoch e; with an empty log_dir the sink is never configured and
\* stays empty.
SinkEmission ==
  /\ log_dir = "" => sink = <<>> /\ ~sink_configured
  /\ log_dir # "" =>
       /\ pc # "entry" => sink_configured
       /\ Len(sink) = 2 * CompletedEpochs
       /\ \A e \in 0..(CompletedEpochs - 1) :
            /\ sink[2 * e + 1] = [name |-> "train_loss", step |-> e,
                                  value |-> train_log[e + 1].train_loss]
            /\ sink[2 * e + 2] = [name |-> "val_loss", step |-> e,
                                  value |-> train_log[e + 1].val_loss]

\* C13 witness: the second epoch has just emitted its two values, which differ
\* from those of the first epoch.
SecondEpochEmitted ==
  /\ pc = "epoch"
  /\ Len(sink) = 4
  /\ sink[3].step = 1
  /\ sink[3].value # sink[1].value
  /\ sink[4].value # sink[2].value

\* ------------------------------------------------------------------- C14
\* What one step of the training phase may do to net i on the current batch.
SkipOrStepOnce(i) ==
  /\ (pc = "train_net" /\ net_idx = i) =>
       \/ /\ pc' = "train_net" /\ net_idx' = i + 1
          /\ batch_use_prob < ProbDen
          /\ UNCHANGED <<params, grads, running_losses, train_examples_per_net>>
       \/ /\ pc' = "backward" /\ net_idx' = i
          /\ batch_use_prob > 0
          /\ UNCHANGED <<params, grads, running_losses, train_examples_per_net>>
       \/ /\ pc' = "failed"
          /\ UNCHANGED <<params, grads, running_losses, train_examples_per_net>>
  /\ (pc = "backward" /\ net_idx = i) =>
       /\ pc' = "opt_step" /\ net_idx' = i
       /\ UNCHANGED <<params, running_losses, train_examples_per_net>>
  /\ (pc = "opt_step" /\ net_idx = i) =>
       /\ pc' = "zero_grad" /\ net_idx' = i
       /\ params' = [params EXCEPT ![i + 1] = @ + 1]
       /\ UNCHANGED <<running_losses, train_examples_per_net>>
  /\ (pc = "zero_grad" /\ net_idx = i) =>
       /\ pc' = "train_net" /\ net_idx' = i + 1
       /\ UNCHANGED params
       /\ train_examples_per_net' =
            [train_examples_per_net EXCEPT ![i + 1] = @ + input_vars[1].dim]
       /\ running_losses' =
            [running_losses EXCEPT ![i + 1] = @ + loss_value * input_vars[1].dim]
  /\ params'[i + 1] # params[i + 1] => pc = "opt_step" /\ net_idx = i

\* C14: a net that is passed over on a batch (possible only when some sample
\* is >= batch_use_prob) keeps its parameters, gradients, running loss and
\* example count, and the loop moves to the next net; a net that uses the batch
\* (possible only when some sample is < batch_use_prob) takes exactly one
\* optimizer step, and then its example count grows by the leading dimension
\* of the first input tensor and its running loss by the loss times that
\* dimension. Parameters change in no other step.
SkipIsNoOp == [][\A i \in NetIdx : SkipOrStepOnce(i)]_vars

\* C14 witness: on one batch net 0 was passed over and net 1 took a step.
FirstSkippedSecondStepped ==
  /\ pc = "train_net"
  /\ net_idx = 2
  /\ batch_pos = 1
  /\ params = <<0, 1>>
  /\ train_examples_per_net = <<0, 1>>

\* ------------------------------------------------------------------- C15
\* The position a step may lead to from each position of the epoch loop, and
\* what it does to the loop counters.
InOrder ==
  /\ pc = "epoch" =>
       \/ /\ pc' = "train_fetch"
          /\ epoch' = range_next /\ range_next' = range_next + 1
          /\ batch_pos' = 0
       \/ pc' = "last" /\ range_next >= train_settings[1].epochs
  /\ pc = "train_fetch" =>
       \/ /\ pc' = "train_net"
          /\ batch_pos' = batch_pos + 1 /\ net_idx' = 0
          /\ input_vars'[1].dim = train_loader[batch_pos + 1][1].dim
       \/ /\ pc' = "val_fetch"
          /\ batch_pos = Len(train_loader) /\ batch_pos' = 0
       \/ pc' = "failed"
  /\ pc = "train_net" =>
       \/ pc' = "train_net" /\ net_idx < nets /\ net_idx' = net_idx + 1
       \/ pc' = "backward" /\ net_idx < nets /\ net_idx' = net_idx
       \/ pc' = "train_fetch" /\ net_idx = nets /\ batch_pos' = batch_pos
       \/ pc' = "failed"
  /\ pc = "backward" => pc' = "opt_step" /\ net_idx' = net_idx
  /\ pc = "opt_step" => pc' = "zero_grad" /\ net_idx' = net_idx
  /\ pc = "zero_grad" => pc' = "train_net" /\ net_idx' = net_idx + 1
  /\ pc = "val_fetch" =>
       \/ /\ pc' = "val_net"
          /\ batch_pos' = batch_pos + 1 /\ net_idx' = 0
          /\ input_vars'[1].dim = val_loader[batch_pos + 1][1].dim
       \/ /\ pc' = "ckpt"
          /\ batch_pos = Len(val_loader) /\ net_idx' = 0
          /\ Len(train_log') = Len(train_log) + 1
       \/ pc' = "failed"
  /\ pc = "val_net" =>
       \/ pc' = "val_net" /\ net_idx < nets /\ net_idx' = net_idx + 1
       \/ pc' = "val_fetch" /\ net_idx = nets /\ batch_pos' = batch_pos
       \/ pc' = "failed"
  /\ pc = "ckpt" =>
       \/ pc' = "ckpt" /\ net_idx < nets /\ net_idx' = net_idx + 1
       \/ pc' = "ckpt_save" /\ net_idx < nets /\ net_idx' = net_idx
       \/ pc' = "epoch" /\ net_idx = nets
       \/ pc' = "failed"
  /\ pc = "ckpt_save" => pc' = "ckpt_cuda" /\ net_idx' = net_idx
  /\ pc = "ckpt_cuda" =>
       \/ pc' = "ckpt" /\ net_idx' = net_idx + 1
       \/ pc' = "failed"
  /\ train_log' # train_log => pc \in {"entry", "val_fetch"}
  /\ epoch' # epoch => pc = "epoch"

\* C15: epochs are started one after another in increasing order; in an epoch
\* the training source is consumed batch by batch, in source order, to its
\* end before the validation source is, also in order and to its end; then
\* the log entry is appended and only then the checkpoint step runs; on a
\* batch the nets are taken in increasing index order and a net's forward
\* pass, backward pass, optimizer step and zero-grad follow one another
\* before the next net is looked at.
StrictSequentialOrder == [][InOrder]_vars

\* C15 witness: the second of two nets is about to take its optimizer step on
\* a batch on which the first net has finished its own step and accumulation.
SecondNetStepsAfterFirst ==
  /\ pc = "opt_step"
  /\ net_idx = 1
  /\ params[1] >= 1
  /\ train_examples_per_net[1] = 1

\* ------------------------------------------------------------------- C16
\* C16: when the training phase of an epoch starts every net's running loss
\* and example count are 0, and when its validation phase starts every net's
\* validation loss total and example count are 0; during an epoch no net has
\* counted more training examples than the batches of this epoch hold nor
\* more loss than those examples can carry, and no log entry reports more
\* examples than one pass of all nets over the training source.
AccumulatorsPerEpoch ==
  /\ (pc = "train_fetch" /\ batch_pos = 0) =>
       \A i \in NetIdx : running_losses[i + 1] = 0 /\ train_examples_per_net[i + 1] = 0
  /\ (pc = "val_fetch" /\ batch_pos = 0) =>
       \A i \in NetIdx :
         validation_total_losses[i + 1] = 0 /\ validation_examples[i + 1] = 0
  /\ pc \in TrainPcs \cup ValPcs \cup CkptPcs =>
       \A i \in NetIdx :
         /\ train_examples_per_net[i + 1] <=
              IF pc \in TrainPcs THEN ExamplesIn(train_loader, batch_pos)
              ELSE TotalExamples(train_loader)
         /\ running_losses[i + 1] <= MaxLoss * train_examples_per_net[i + 1]
  /\ pc \in ValPcs \cup CkptPcs =>
       \A i \in NetIdx :
         validation_total_losses[i + 1] <= MaxLoss * validation_examples[i + 1]
  /\ \A k \in 1..Len(train_log) :
       /\ train_log[k].examples_per_sec.d = 1
       /\ train_log[k].examples_per_sec.n <= nets * TotalExamples(train_loader)

\* C16 witness: the training phase of the second epoch starts after a first
\* epoch that accumulated a loss above zero.
SecondEpochStartsFromZero ==
  /\ pc = "train_fetch"
  /\ batch_pos = 0
  /\ epoch = 1
  /\ train_log[1].train_loss.n > 0

\* ------------------------------------------------------------------- C17
\* Net i is between its net.cpu() and net.cuda() calls around one write, or
\* the run ended when the net.cuda() call after the write failed.
Bracketed(i) ==
  \/ pc \in {"ckpt_save", "ckpt_cuda"} /\ net_idx = i
  \/ pc \in {"last_save", "last_cuda"} /\ net_id = i
  \/ pc = "failed" /\ fault.error = "DeviceTransferFailure" /\ fault.line = 166
       /\ net_idx = i
  \/ pc = "failed" /\ fault.error = "DeviceTransferFailure" /\ fault.line = 181
       /\ net_id = i

\* C17: a net is on host memory only between the net.cpu() and net.cuda()
\* calls around one checkpoint write, so never while another net or another
\* epoch is processed; the latest write of a "best" or "last" file found its
\* net on host memory, and the latest forward pass, training or validation,
\* found its net on the device.
DeviceResidency ==
  /\ \A i \in NetIdx : device[i + 1] = "cpu" => Bracketed(i)
  /\ pc \in {"ckpt_cuda", "last_cuda"} =>
       last_save.dev = "cpu" /\ writes[<<last_save.net, last_save.kind>>] >= 1
  /\ \A i \in NetIdx : \A kind \in {"best", "last"} :
       (writes[<<i, kind>>] >= 1 /\ last_save.net = i /\ last_save.kind = kind) =>
         last_save.dev = "cpu"
  /\ pc \in {"backward", "val_net"} => last_forward.dev = "cuda"
  /\ last_forward.phase # "none" => last_forward.dev = "cuda"

\* C17 witness: net 0 was written in the first epoch, ran its forward passes
\* of the second epoch, and is on host memory for its second write.
OnHostForSecondWrite ==
  /\ pc = "ckpt_cuda"
  /\ epoch = 1
  /\ writes[Best(0)] = 2
  /\ device[1] = "cpu"
  /\ last_forward.phase = "val"

\* ------------------------------------------------------------------- C18
\* The invocations made for element k of the settings list.
InvocationsOf(k) ==
  {j \in 1..Len(call.invocations) : call.invocations[j].fold = k}

\* Every element of the list has been run exactly once when map returns.
OneInvocationPerEntry ==
  /\ \A k \in 1..Len(call.per_fold_settings) : Cardinality(InvocationsOf(k)) <= 1
  /\ call.done =>
       \A k \in 1..Len(call.per_fold_settings) : Cardinality(InvocationsOf(k)) = 1

\* Both directories of an invocation come from the settings id of its element.
DirsFromSettingsId ==
  \A j \in 1..Len(call.invocations) :
    LET fold_settings == call.per_fold_settings[call.invocations[j].fold]
        id == fold_settings.training_settings_json.settings_id
    IN  /\ call.invocations[j].out_prefix = <<fold_settings.base_out_dir, id>>
        /\ call.invocations[j].log_dir = <<fold_settings.base_log_dir, id>>

\* No checkpoint path has been written by two invocations.
CheckpointPathsDisjoint ==
  \A x \in call.written : \A y \in call.written : x.path = y.path => x.fold = y.fold

\* C18: for every list of settings and every parallelism, each element of the
\* list is run by exactly one TrainModels invocation whose out_prefix and
\* log_dir are built from that element's settings id, and no two invocations
\* write the same checkpoint path.
FoldOrchestration ==
  /\ OneInvocationPerEntry
  /\ DirsFromSettingsId
  /\ CheckpointPathsDisjoint

\* ------------------------------------------------------------------- C19
RECURSIVE MinimumLoss(_, _)
\* The lowest validation loss of net i over the first k completed epochs.
MinimumLoss(i, k) ==
  IF k = 0 THEN Inf
  ELSE LET before == MinimumLoss(i, k - 1)
           this == validated[k].losses[i + 1]
       IN  IF this.n * before.d < before.n * this.d THEN this ELSE before

\* The earliest completed epoch (counted from 1) at which net i had that loss.
EarliestBest(i) ==
  CHOOSE k \in 1..Len(validated) :
    /\ validated[k].losses[i + 1] = MinimumLoss(i, Len(validated))
    /\ \A j \in 1..(k - 1) : validated[j].losses[i + 1] # MinimumLoss(i, Len(validated))

\* The run is between two epochs, in its final loop, or has returned.
AtEpochBoundary == pc \in {"epoch", "done"} \cup LastPcs

\* C19: between epochs and at the end of the run, for every net that has a
\* "-i-best" file, min_validation_losses[i] is the lowest validation loss the
\* net had over the completed epochs and the file holds the parameters the net
\* was validated with in the earliest epoch that had this loss; a written
\* "-i-last" file holds the parameters the net was validated with in the final
\* epoch, which are the ones it still has (the initial ones if no epoch ran).
BestCheckpointContent ==
  /\ AtEpochBoundary =>
       \A i \in NetIdx :
         files[Best(i)] # <<>> =>
           /\ min_validation_losses[i + 1] = MinimumLoss(i, Len(validated))
           /\ files[Best(i)] = <<validated[EarliestBest(i)].params[i + 1]>>
  /\ \A i \in NetIdx :
       files[Last(i)] # <<>> =>
         /\ files[Last(i)] = <<params[i + 1]>>
         /\ validated # <<>> =>
              files[Last(i)] = <<validated[Len(validated)].params[i + 1]>>
         /\ Len(validated) = train_settings[1].epochs

\* C19 witness: net 0 set its minimum in the first of two epochs and only
\* repeated it in the second, where it had other parameters; the run returned
\* with the first epoch's parameters in the "best" file and the second's in
\* the "last" file.
BestFromFirstOfTwoEpochs ==
  /\ pc = "done"
  /\ Len(validated) = 2
  /\ EarliestBest(0) = 1
  /\ validated[2].losses[1] = validated[1].losses[1]
  /\ validated[2].params[1] # validated[1].params[1]
  /\ files[Last(0)] # files[Best(0)]

\* ------------------------------------------------------------------- C20
\* C20: when the backward pass of a net is about to start its gradients are
\* zero, when its optimizer step is about to be applied they hold the
\* gradient of exactly one loss, and the gradients of every net are zero
\* everywhere else: at the start of an epoch, between the nets of a batch,
\* and throughout the validation phase and the checkpoint step.
GradientsNeverAccumulate ==
  /\ pc = "backward" => grads[net_idx + 1] = 0
  /\ pc = "opt_step" => grads[net_idx + 1] = 1
  /\ pc = "zero_grad" => grads[net_idx + 1] = 1
  /\ \A i \in NetIdx :
       (pc \notin {"opt_step", "zero_grad", "failed"} \/ net_idx # i) => grads[i + 1] = 0
  /\ pc = "failed" => \A i \in NetIdx : grads[i + 1] = 0

\* C20 witness: net 0 is about to take its second optimizer step of the
\* epoch, on the second batch, with the gradient of that batch's loss alone.
SecondStepOnFreshGradients ==
  /\ pc = "opt_step"
  /\ net_idx = 0
  /\ batch_pos = 2
  /\ train_examples_per_net[1] = 1
  /\ grads[1] = 1


====
